---- MODULE Spec2Model ----
(***************************************************************************)
(* Model of the mobile movie app's core (src/services/api.ts):             *)
(*   - updateSearchCount: the search-telemetry upsert against the remote   *)
(*     document store (listDocuments, then updateDocument/createDocument), *)
(*   - getTrendingMovies: the top-5 query ordered by count descending,     *)
(*   - useFetch: the {data, loading, error} controller with fetchData      *)
(*     (refetch), reset and the mount effect.                              *)
(* Every await is a suspension point: the code before it and the code      *)
(* after it are separate atomic steps of the single-threaded event loop,   *)
(* and the store serves each request atomically.                           *)
(***************************************************************************)
EXTENDS Integers, Sequences, FiniteSets, TLC

VARIABLES
    documents,   \* the telemetry collection: sequence of documents in creation order
    calls,       \* the updateSearchCount calls in flight, in start order
    started,     \* per search term, the number of updateSearchCount calls started so far
    settled,     \* the updateSearchCount call that finished last, and how it ended
    trending,    \* the last getTrendingMovies call: its argument, outcome and value
    autoFetch,   \* useFetch: the autoFetch argument of this controller instance
    mounted,     \* useFetch: whether the mount effect has run
    data,        \* useFetch: useState data
    loading,     \* useFetch: useState loading
    error,       \* useFetch: useState error
    requests,    \* useFetch: every fetchData invocation so far, in start order
    events,      \* useFetch: the last two things that happened to the controller, latest first
    acted,       \* useFetch: whether the owner has called refetch or reset
    wasReset,    \* useFetch: whether the owner has called reset
    producer,    \* useFetch: which function the owner passed as fetchFunction
    catalog      \* the last fetchMovies call: its query, its position, the requests it sent

storeVars == <<documents, calls, started, settled>>
trendVars == <<trending>>
fetchVars == <<autoFetch, mounted, data, loading, error, requests, events, acted, wasReset, producer>>
catalogVars == <<catalog>>
vars == <<documents, calls, started, settled, trending, autoFetch, mounted, data, loading, error, requests, events, acted, wasReset,
          producer, catalog>>

\* JavaScript's null and undefined.
NULL == "null"
UNDEFINED == "undefined"

(***************************************************************************)
(* Bounds of the model.                                                    *)
(***************************************************************************)
\* updateSearchCount calls started in one behaviour.
MaxCalls == 4
\* fetchData invocations in one behaviour.
MaxRequests == 3
\* documents in a store handed to getTrendingMovies.
MaxDocs == 6
\* largest count in a store handed to getTrendingMovies.
MaxCount == 3
\* largest limit a caller of getTrendingMovies may ask for.
MaxRequested == 6

\* Search terms: matching is exact, so case and whitespace variants are distinct terms.
Terms == {"Avatar", "avatar "}

\* Catalog items (Movie): id, title, poster_path (a path or null).
Movies ==
    { [id |-> 19995, title |-> "Avatar", poster_path |-> "/avatar.jpg"],
      [id |-> 603, title |-> "The Matrix", poster_path |-> NULL] }

(***************************************************************************)
(* The remote document store (Appwrite Databases), by its contract.        *)
(***************************************************************************)
\* listDocuments with [Query.equal("searchTerm", query)]: result.documents, the
\* matching documents in creation order.
ListBySearchTerm(docs, query) == SelectSeq(docs, LAMBDA d : d.searchTerm = query)

\* JavaScript truthiness of a string-or-null value: null and "" are falsy.
Truthy(x) == x # NULL /\ x # UNDEFINED /\ x # ""

\* count || 0, for the numeric count of a stored document (0 is the only falsy number stored).
OrZero(count) == IF count # 0 THEN count ELSE 0

IMAGE_BASE == "https://image.tmdb.org/t/p/w500"

\* The poster_url field of a created document.
PosterUrl(movie) ==
    IF Truthy(movie.poster_path) THEN IMAGE_BASE \o movie.poster_path ELSE NULL

\* The field map handed to createDocument, under the id ID.unique() generated.
NewDocument(id, query, movie) ==
    [id |-> id,
     searchTerm |-> query,
     movie_id |-> movie.id,
     title |-> movie.title,
     count |-> 1,
     poster_url |-> PosterUrl(movie)]

\* The count handed to updateDocument: (existingMovie.count || 0) + 1.
IncrementedCountNoAdd(existingMovie) == OrZero(existingMovie.count)

IncrementedCountByTwo(existingMovie) == OrZero(existingMovie.count) + 2

IncrementedCount(existingMovie) == OrZero(existingMovie.count) + 1

UpdateDocument(docs, id, newCount) ==
    [docs EXCEPT ![id].count = newCount]

CreateDocument(docs, query, movie) ==
    Append(docs, NewDocument(Len(docs) + 1, query, movie))

(***************************************************************************)
(* updateSearchCount                                                       *)
(***************************************************************************)
NoDocument == [id |-> 0, count |-> 0]

\* The number of updateSearchCount calls started so far, over all terms.
RECURSIVE SumOver(_, _)
SumOver(f, S) ==
    IF S = {} THEN 0
    ELSE LET x == CHOOSE y \in S : TRUE IN f[x] + SumOver(f, S \ {x})

TotalStarted == SumOver(started, Terms)

\* seq without its i-th element.
RemoveAt(seq, i) == SubSeq(seq, 1, i - 1) \o SubSeq(seq, i + 1, Len(seq))

CatchAndRethrow(c, step) ==
    [outcome |-> "threw", logged |-> TRUE, failedAt |-> step, wrote |-> "none",
     alone |-> c.alone, query |-> c.query, movie_id |-> c.movie.id]

\* The catch block: log the error, and the call returns normally.
CatchAndLog(c, step) ==
    [outcome |-> "returned", logged |-> TRUE, failedAt |-> step, wrote |-> "none",
     alone |-> c.alone, query |-> c.query, movie_id |-> c.movie.id]

\* The try block ran to its end: the call returns normally.
ReturnAfterWrite(c) ==
    [outcome |-> "returned", logged |-> FALSE, failedAt |-> "none", wrote |-> c.pc,
     alone |-> c.alone, query |-> c.query, movie_id |-> c.movie.id]

\* The branch taken on the query's result: result.documents.length > 0.
AfterList(c, result) ==
    IF Len(result) > 0
    THEN [c EXCEPT !.pc = "updateDocument",
                   !.existingMovie = [id |-> result[1].id, count |-> result[1].count]]
    ELSE [c EXCEPT !.pc = "createDocument"]

\* A caller invokes updateSearchCount(query, movie): the query request is sent.
\* alone records that no other call has been in flight together with this one,
\* prior the number of documents the store held for the term when the call was made.
StartUpdateSearchCount ==
    /\ TotalStarted < MaxCalls
    /\ \E query \in Terms, movie \in Movies :
          /\ calls' = Append(
                [k \in DOMAIN calls |-> [calls[k] EXCEPT !.alone = FALSE]],
                [query |-> query, movie |-> movie, pc |-> "listDocuments",
                 existingMovie |-> NoDocument, alone |-> (calls = <<>>),
                 prior |-> Len(ListBySearchTerm(documents, query))])
          /\ started' = [started EXCEPT ![query] = @ + 1]
    /\ UNCHANGED <<documents, settled, trendVars, fetchVars, catalogVars>>

\* The store answers call i's query; the call goes on to its write request.
ListDocumentsResolves(i) ==
    /\ calls[i].pc = "listDocuments"
    /\ calls' = [calls EXCEPT ![i] = AfterList(@, ListBySearchTerm(documents, @.query))]
    /\ UNCHANGED <<documents, started, settled, trendVars, fetchVars, catalogVars>>

\* Call i's query fails: the catch block runs.
ListDocumentsRejects(i) ==
    /\ calls[i].pc = "listDocuments"
    /\ settled' = CatchAndLog(calls[i], "listDocuments")
    /\ calls' = RemoveAt(calls, i)
    /\ UNCHANGED <<documents, started, trendVars, fetchVars, catalogVars>>

\* The store applies call i's update.
UpdateDocumentResolves(i) ==
    /\ calls[i].pc = "updateDocument"
    /\ documents' = UpdateDocument(documents, calls[i].existingMovie.id,
                                   IncrementedCount(calls[i].existingMovie))
    /\ settled' = ReturnAfterWrite(calls[i])
    /\ calls' = RemoveAt(calls, i)
    /\ UNCHANGED <<started, trendVars, fetchVars, catalogVars>>

\* Call i's update fails: the catch block runs.
UpdateDocumentRejects(i) ==
    /\ calls[i].pc = "updateDocument"
    /\ settled' = CatchAndLog(calls[i], "updateDocument")
    /\ calls' = RemoveAt(calls, i)
    /\ UNCHANGED <<documents, started, trendVars, fetchVars, catalogVars>>

\* The store creates call i's document.
CreateDocumentResolves(i) ==
    /\ calls[i].pc = "createDocument"
    /\ documents' = CreateDocument(documents, calls[i].query, calls[i].movie)
    /\ settled' = ReturnAfterWrite(calls[i])
    /\ calls' = RemoveAt(calls, i)
    /\ UNCHANGED <<started, trendVars, fetchVars, catalogVars>>

\* Call i's create fails: the catch block runs.
CreateDocumentRejects(i) ==
    /\ calls[i].pc = "createDocument"
    /\ settled' = CatchAndLog(calls[i], "createDocument")
    /\ calls' = RemoveAt(calls, i)
    /\ UNCHANGED <<documents, started, trendVars, fetchVars, catalogVars>>

ListDocumentsStep == \E i \in DOMAIN calls : ListDocumentsResolves(i)
ListDocumentsFails == \E i \in DOMAIN calls : ListDocumentsRejects(i)
UpdateDocumentStep == \E i \in DOMAIN calls : UpdateDocumentResolves(i)
UpdateDocumentFails == \E i \in DOMAIN calls : UpdateDocumentRejects(i)
CreateDocumentStep == \E i \in DOMAIN calls : CreateDocumentResolves(i)
CreateDocumentFails == \E i \in DOMAIN calls : CreateDocumentRejects(i)

NoneSettled ==
    [outcome |-> "none", logged |-> FALSE, failedAt |-> "none", wrote |-> "none",
     alone |-> TRUE, query |-> "", movie_id |-> 0]

(***************************************************************************)
(* Search telemetry store: properties.                                     *)
(***************************************************************************)
\* The step completes call i with its write applied by the store.
FinishesWritten(i) ==
    /\ calls' = RemoveAt(calls, i)
    /\ settled'.wrote # "none"

\* The documents of docs whose searchTerm is not query.
OtherTerms(docs, query) == SelectSeq(docs, LAMBDA d : d.searchTerm # query)

\* C1: in every reachable state of the store, also under interleaved calls, at most
\* one document exists for each distinct searchTerm.
OneRecordPerTerm ==
    \A i, j \in DOMAIN documents :
        documents[i].searchTerm = documents[j].searchTerm => i = j

\* C2: every write to a document's count stores a value greater than or equal to the
\* value it replaces, also when three or more calls on the same term overlap.
CountNeverDecreases ==
    [][\A i \in DOMAIN documents : documents'[i].count >= documents[i].count]_vars

\* C3: a call for term t that overlaps no other call, made when exactly one document
\* with count c exists for t, and whose store requests succeed, leaves exactly one
\* document for t, with count c + 1 and every other field (id, movie_id, title,
\* poster_url) as it was, whatever item the call was given.
SequentialIncrement ==
    [][\A i \in DOMAIN calls :
          (calls[i].alone /\ calls[i].prior = 1 /\ FinishesWritten(i)) =>
              LET before == ListBySearchTerm(documents, calls[i].query)
                  after == ListBySearchTerm(documents', calls[i].query)
              IN  /\ Len(before) = 1
                  /\ Len(after) = 1
                  /\ after[1] = [before[1] EXCEPT !.count = before[1].count + 1]]_vars

\* C3 witness: "Avatar" searched twice in sequence from the empty store, first for
\* item 19995 and then for another item: one document, count 2, movie_id 19995.
AvatarSearchedTwice ==
    /\ calls = <<>>
    /\ TotalStarted = 2
    /\ settled.alone
    /\ settled.wrote = "updateDocument"
    /\ settled.query = "Avatar"
    /\ settled.movie_id = 603
    /\ Len(documents) = 1
    /\ documents[1].searchTerm = "Avatar"
    /\ documents[1].count = 2
    /\ documents[1].movie_id = 19995
    /\ documents[1].title = "Avatar"
    /\ documents[1].poster_url = "https://image.tmdb.org/t/p/w500/avatar.jpg"

\* C4: a call updateSearchCount(t, item) made when no document exists for t, and whose
\* store requests succeed, results in exactly one document for t, with count 1,
\* movie_id item.id, title item.title and poster_url the image base followed by
\* item.poster_path (null without one); the documents of other terms are unchanged.
FirstSearchCreatesOneRecord ==
    [][\A i \in DOMAIN calls :
          (calls[i].prior = 0 /\ FinishesWritten(i)) =>
              LET after == ListBySearchTerm(documents', calls[i].query)
                  movie == calls[i].movie
              IN  /\ Len(after) = 1
                  /\ after[1].count = 1
                  /\ after[1].movie_id = movie.id
                  /\ after[1].title = movie.title
                  /\ after[1].poster_url =
                        (IF movie.poster_path = NULL THEN NULL
                         ELSE IMAGE_BASE \o movie.poster_path)
                  /\ OtherTerms(documents', calls[i].query)
                        = OtherTerms(documents, calls[i].query)]_vars

\* C5: updateSearchCount never throws to its caller, whichever store request fails,
\* and a call whose query failed has written nothing to the store.
NeverThrows ==
    /\ settled.outcome \in {"none", "returned"}
    /\ settled.failedAt = "listDocuments" => settled.wrote = "none"
    /\ \A i \in DOMAIN calls : calls[i].pc \in {"listDocuments", "updateDocument", "createDocument"}

\* C5 witness: a call whose query failed has returned, the store holding documents.
QueryFailedAndReturned ==
    /\ settled.outcome = "returned"
    /\ settled.failedAt = "listDocuments"
    /\ settled.logged
    /\ documents # <<>>

(***************************************************************************)
(* getTrendingMovies                                                       *)
(***************************************************************************)
\* Query.limit(5)
TRENDING_LIMIT == 5

\* Query.limit(n) applied to a result list.
QueryLimitNone(seq, n) == seq

QueryLimit(seq, n) == IF Len(seq) <= n THEN seq ELSE SubSeq(seq, 1, n)

\* doc inserted into a list ordered by count descending, after the documents whose
\* count is greater or equal (ties keep the store's creation order).
RECURSIVE InsertByCountDesc(_, _)
InsertByCountDesc(sorted, doc) ==
    IF sorted = <<>> THEN <<doc>>
    ELSE IF Head(sorted).count >= doc.count
         THEN <<Head(sorted)>> \o InsertByCountDesc(Tail(sorted), doc)
         ELSE <<doc>> \o sorted

\* Query.orderDesc("count") applied to the collection.
RECURSIVE QueryOrderDescCount(_)
QueryOrderDescCount(docs) ==
    IF docs = <<>> THEN <<>>
    ELSE InsertByCountDesc(QueryOrderDescCount(SubSeq(docs, 1, Len(docs) - 1)),
                           docs[Len(docs)])

\* listDocuments with [Query.limit(5), Query.orderDesc("count")]: result.documents.
ListTrending(docs) == QueryLimit(QueryOrderDescCount(docs), TRENDING_LIMIT)

\* A returned array, and the returned undefined.
Returned(docs) == [defined |-> TRUE, documents |-> docs]
ReturnedUndefined == [defined |-> FALSE, documents |-> <<>>]

\* The catch block of getTrendingMovies: log the error, return undefined.
TrendingCatchReturnsEmpty == Returned(<<>>)

TrendingCatch == ReturnedUndefined

NoTrending ==
    [requested |-> 0, outcome |-> "none", failed |-> FALSE, value |-> ReturnedUndefined]

\* getTrendingMovies takes no parameter: a limit the caller asks for is not read.
\* The store answers the query and the call returns result.documents.
GetTrendingMoviesResolves ==
    /\ \E requested \in 1..MaxRequested :
          trending' = [requested |-> requested, outcome |-> "returned", failed |-> FALSE,
                       value |-> Returned(ListTrending(documents))]
    /\ UNCHANGED <<storeVars, fetchVars, catalogVars>>

\* The query fails: the catch block runs.
GetTrendingMoviesRejects ==
    /\ \E requested \in 1..MaxRequested :
          trending' = [requested |-> requested, outcome |-> "returned", failed |-> TRUE,
                       value |-> TrendingCatch]
    /\ UNCHANGED <<storeVars, fetchVars, catalogVars>>

\* Store contents handed to getTrendingMovies: up to MaxDocs documents with counts
\* up to MaxCount, in any creation order.
StoredDocument(id, count) ==
    [id |-> id,
     searchTerm |-> IF id % 2 = 1 THEN "Avatar" ELSE "avatar ",
     movie_id |-> 19995,
     title |-> "Avatar",
     count |-> count,
     poster_url |-> "https://image.tmdb.org/t/p/w500/avatar.jpg"]

TrendingStores ==
    UNION { { [i \in 1..n |-> StoredDocument(i, counts[i])] : counts \in [1..n -> 1..MaxCount] }
            : n \in 0..MaxDocs }

(***************************************************************************)
(* Trending aggregator: properties.                                        *)
(***************************************************************************)
SortedByCountDesc(seq) ==
    \A i, j \in DOMAIN seq : i < j => seq[i].count >= seq[j].count

\* C9 as claimed: for every store content and every requested limit, the call
\* returns no more than the requested number of entries, sorted by count descending.
AtMostRequestedEntries ==
    (trending.outcome = "returned" /\ trending.value.defined) =>
        /\ Len(trending.value.documents) <= trending.requested
        /\ SortedByCountDesc(trending.value.documents)

\* C9 as amended: whatever limit the caller asks for, the call returns no more than
\* 5 entries (the limit the query fixes), sorted by count descending.
AtMostFiveSortedEntries ==
    (trending.outcome = "returned" /\ trending.value.defined) =>
        /\ Len(trending.value.documents) <= 5
        /\ SortedByCountDesc(trending.value.documents)

\* C9 witness: a store of more than 5 documents, not in count order, queried: 5
\* entries came back, of differing counts.
TopFiveOfLargerStore ==
    /\ Len(documents) > 5
    /\ ~SortedByCountDesc(documents)
    /\ trending.outcome = "returned"
    /\ trending.value.defined
    /\ Len(trending.value.documents) = 5
    /\ trending.value.documents[1].count > trending.value.documents[5].count
    /\ trending.requested # 5

\* C10: when the store query fails the call returns undefined and throws nothing;
\* undefined is returned only on failure: a successful query returns an array, the
\* empty array for the empty store.
UndefinedOnlyOnFailure ==
    /\ trending.outcome \in {"none", "returned"}
    /\ trending.outcome = "returned" =>
          /\ trending.failed <=> ~trending.value.defined
          /\ (~trending.failed /\ documents = <<>>) => trending.value = Returned(<<>>)

\* C10 witness: the query of a non-empty store failed and the call returned undefined.
FailedQueryReturnedUndefined ==
    /\ trending.outcome = "returned"
    /\ trending.failed
    /\ ~trending.value.defined
    /\ documents # <<>>

(***************************************************************************)
(* fetchMovies                                                             *)
(***************************************************************************)
\* A query is a sequence of characters; these are the characters of the model: a
\* letter, which encodeURIComponent keeps, and a space and an ampersand, which it
\* escapes.
Chars == {"a", " ", "&"}

\* longest query.
MaxQueryLen == 3

Queries == UNION { [1..n -> Chars] : n \in 0..MaxQueryLen }

\* encodeURIComponent, character by character.
EncodeChar(ch) ==
    CASE ch = " " -> "%20"
      [] ch = "&" -> "%26"
      [] OTHER -> ch

EncodeURIComponent(query) == [k \in 1..Len(query) |-> EncodeChar(query[k])]

\* The request fetch(endpoint, {method: "GET", headers}) sends: the endpoint is the
\* search URL with the encoded query when query is truthy (not ""), the discover URL
\* otherwise.
SearchRequest(query) ==
    [method |-> "GET", base |-> "https://api.themoviedb.org/3", path |-> "/search/movie",
     search |-> <<[name |-> "query", value |-> EncodeURIComponent(query)]>>]

DiscoverRequest ==
    [method |-> "GET", base |-> "https://api.themoviedb.org/3", path |-> "/discover/movie",
     search |-> <<[name |-> "sort_by", value |-> <<"popularity.desc">>]>>]

EndpointAlwaysSearch(query) == SearchRequest(query)

Endpoint(query) == IF query # <<>> THEN SearchRequest(query) ELSE DiscoverRequest

NoFetchMovies == [pc |-> "idle", query |-> <<>>, sent |-> <<>>, outcome |-> "none"]

\* A caller invokes fetchMovies({query}): the request is sent.
FetchMoviesCall ==
    /\ catalog.pc \in {"idle", "returned", "threw"}
    /\ \E query \in Queries :
          catalog' = [pc |-> "fetch", query |-> query, sent |-> <<Endpoint(query)>>,
                      outcome |-> "none"]
    /\ UNCHANGED <<storeVars, trendVars, fetchVars>>

\* The response arrives with a success status: response.json() is awaited.
FetchResponseOk ==
    /\ catalog.pc = "fetch"
    /\ catalog' = [catalog EXCEPT !.pc = "json"]
    /\ UNCHANGED <<storeVars, trendVars, fetchVars>>

\* The response arrives with a failure status: the call throws
\* Error("Failed to fetch movies: " + statusText).
FetchResponseNotOk ==
    /\ catalog.pc = "fetch"
    /\ catalog' = [catalog EXCEPT !.pc = "threw", !.outcome = "Failed to fetch movies"]
    /\ UNCHANGED <<storeVars, trendVars, fetchVars>>

\* fetch itself rejects (no response): the rejection propagates.
FetchRejects ==
    /\ catalog.pc = "fetch"
    /\ catalog' = [catalog EXCEPT !.pc = "threw", !.outcome = "fetch rejected"]
    /\ UNCHANGED <<storeVars, trendVars, fetchVars>>

\* The body is decoded: the call returns data.results.
JsonResolves ==
    /\ catalog.pc = "json"
    /\ catalog' = [catalog EXCEPT !.pc = "returned", !.outcome = "data.results"]
    /\ UNCHANGED <<storeVars, trendVars, fetchVars>>

\* The body cannot be decoded: the rejection propagates.
JsonRejects ==
    /\ catalog.pc = "json"
    /\ catalog' = [catalog EXCEPT !.pc = "threw", !.outcome = "json rejected"]
    /\ UNCHANGED <<storeVars, trendVars, fetchVars>>

(***************************************************************************)
(* Remote catalog client: properties.                                      *)
(***************************************************************************)
\* What a catalog server reads back from an escaped character.
DecodeChar(token) ==
    CASE token = "%20" -> " "
      [] token = "%26" -> "&"
      [] OTHER -> token

DecodeURIComponent(value) == [k \in 1..Len(value) |-> DecodeChar(value[k])]

\* The characters that may stand in a query string's value as they are.
Unreserved == {"a"}

\* C12: a fetchMovies call with a non-empty query sends exactly one request, a search
\* request whose query parameter is the percent-encoded query; with the empty query
\* it sends exactly one request, a discover request sorted by popularity with no
\* query parameter; it sends no second request, whatever the outcome.
OneRequestPerCall ==
    catalog.pc # "idle" =>
        /\ Len(catalog.sent) = 1
        /\ catalog.sent[1].method = "GET"
        /\ IF catalog.query # <<>>
           THEN /\ catalog.sent[1].path = "/search/movie"
                /\ Len(catalog.sent[1].search) = 1
                /\ catalog.sent[1].search[1].name = "query"
                /\ DecodeURIComponent(catalog.sent[1].search[1].value) = catalog.query
                /\ \A k \in DOMAIN catalog.sent[1].search[1].value :
                      catalog.sent[1].search[1].value[k] \in Unreserved \cup {"%20", "%26"}
           ELSE /\ catalog.sent[1].path = "/discover/movie"
                /\ catalog.sent[1].search =
                      <<[name |-> "sort_by", value |-> <<"popularity.desc">>]>>

\* C12 witness: a search for "a &" was answered with a failure status: the call threw
\* after its one request.
SearchFailedWithoutRetry ==
    /\ catalog.pc = "threw"
    /\ catalog.outcome = "Failed to fetch movies"
    /\ catalog.query = <<"a", " ", "&">>
    /\ Len(catalog.sent) = 1
    /\ catalog.sent[1].search[1].value = <<"a", "%20", "%26">>

(***************************************************************************)
(* useFetch                                                                *)
(***************************************************************************)
\* Values the producer (fetchFunction) may resolve to; undefined is what
\* getTrendingMovies resolves to on failure.
Values == {"movies1", "movies2", UNDEFINED}

\* Values the producer may reject with (or throw): Error objects, which carry a
\* message, and other values: an object with a message, and null.
Thrown ==
    { [isError |-> TRUE, message |-> "boom"],
      [isError |-> TRUE, message |-> "Failed to fetch movies: Not Found"],
      [isError |-> FALSE, message |-> "boom"],
      [isError |-> FALSE, message |-> NULL] }

\* The error state: null, or an Error object with its message.
NoError == [present |-> FALSE, message |-> NULL]
ErrorObject(message) == [present |-> TRUE, message |-> message]

\* err instanceof Error ? err : new Error("An unknown error occurred")
WrapErrorAlwaysUnknown(err) == ErrorObject("An unknown error occurred")

WrapError(err) ==
    IF err.isError THEN ErrorObject(err.message)
    ELSE ErrorObject("An unknown error occurred")

\* The three useState cells as one record.
State == [data |-> data, loading |-> loading, error |-> error]

\* useState's initial values.
InitialState == [data |-> NULL, loading |-> FALSE, error |-> NoError]

\* fetchData up to its await: setLoading(true); setError(null).
FetchStarted(st) == [st EXCEPT !.loading = TRUE, !.error = NoError]

\* fetchData after its await resolved: setData(result); finally setLoading(false).
FetchResolvedNoFinally(st, result) == [st EXCEPT !.data = result]

FetchResolvedKeepsData(st, result) == [st EXCEPT !.loading = FALSE]

FetchResolvedFirstWins(st, result) ==
    [st EXCEPT !.data = IF st.data = NULL THEN result ELSE st.data, !.loading = FALSE]

FetchResolved(st, result) == [st EXCEPT !.data = result, !.loading = FALSE]

\* fetchData after its await rejected: setError(...); finally setLoading(false).
FetchRejectedNoFinally(st, err) == [st EXCEPT !.error = WrapError(err)]

FetchRejected(st, err) == [st EXCEPT !.error = WrapError(err), !.loading = FALSE]

\* reset: setData(null); setError(null); setLoading(false).
ResetStateKeepsLoading(st) == [st EXCEPT !.data = NULL, !.error = NoError]

ResetState(st) == [data |-> NULL, loading |-> FALSE, error |-> NoError]

SetState(st) ==
    /\ data' = st.data
    /\ loading' = st.loading
    /\ error' = st.error

\* The latest event put before the one before it.
Record(event) == events' = <<event>> \o SubSeq(events, 1, IF events = <<>> THEN 0 ELSE 1)

NoThrown == [isError |-> FALSE, message |-> NULL]

NewRequest(auto) ==
    [auto |-> auto, status |-> "pending", value |-> NULL, thrown |-> NoThrown, settledAt |-> 0]

\* The functions the home screen passes to useFetch: getTrendingMovies, and a
\* producer of which nothing is known (it may resolve to, or reject with, anything).
Producers == {"fetchFunction", "getTrendingMovies"}

\* What the controller's data holds for a value getTrendingMovies returned.
TrendingData(ret) == IF ret.defined THEN "trendingMovies" ELSE UNDEFINED

\* How the promise of a getTrendingMovies() call may settle, for the store as it is.
GetTrendingMoviesOutcomesRethrow ==
    { [kind |-> "resolved", value |-> TrendingData(Returned(ListTrending(documents))),
       thrown |-> NoThrown],
      [kind |-> "rejected", value |-> NULL,
       thrown |-> [isError |-> TRUE, message |-> "store failure"]] }

GetTrendingMoviesOutcomes ==
    { [kind |-> "resolved", value |-> TrendingData(Returned(ListTrending(documents))),
       thrown |-> NoThrown],
      [kind |-> "resolved", value |-> TrendingData(TrendingCatch), thrown |-> NoThrown] }

\* await fetchFunction(): the values it may yield, and the values it may throw.
ResolveValues(p) ==
    IF p = "getTrendingMovies"
    THEN { o.value : o \in { x \in GetTrendingMoviesOutcomes : x.kind = "resolved" } }
    ELSE Values

RejectValues(p) ==
    IF p = "getTrendingMovies"
    THEN { o.thrown : o \in { x \in GetTrendingMoviesOutcomes : x.kind = "rejected" } }
    ELSE Thrown

\* The dependency array of the effect: [] (the effect runs on mount only).
EffectDepsFetchFunction == {"fetchFunction"}

EffectDeps == {}

\* The number of requests that have settled.
SettledCount == Cardinality({ i \in DOMAIN requests : requests[i].status # "pending" })

\* The mount effect: if (autoFetch) fetchData().
MountEffect ==
    /\ ~mounted
    /\ mounted' = TRUE
    /\ IF autoFetch
       THEN /\ SetState(FetchStarted(State))
            /\ requests' = Append(requests, NewRequest(TRUE))
       ELSE UNCHANGED <<data, loading, error, requests>>
    /\ Record("mount")
    /\ UNCHANGED <<autoFetch, acted, wasReset, producer, storeVars, trendVars, catalogVars>>

\* The owning component renders again and passes a new closure as fetchFunction
\* (the home screen's () => fetchMovies({query: ""}) is a new function on every
\* render). The effect runs again only if one of its dependencies changed; the
\* closure itself is held in no state of the hook.
Rerender ==
    /\ mounted
    /\ IF "fetchFunction" \in EffectDeps /\ autoFetch /\ Len(requests) < MaxRequests
       THEN /\ SetState(FetchStarted(State))
            /\ requests' = Append(requests, NewRequest(TRUE))
       ELSE UNCHANGED <<data, loading, error, requests>>
    /\ UNCHANGED <<autoFetch, mounted, events, acted, wasReset, producer, storeVars, trendVars, catalogVars>>

\* The owner calls refetch (fetchData): the producer is invoked.
Refetch ==
    /\ mounted
    /\ Len(requests) < MaxRequests
    /\ SetState(FetchStarted(State))
    /\ requests' = Append(requests, NewRequest(FALSE))
    /\ Record("refetch")
    /\ acted' = TRUE
    /\ UNCHANGED <<autoFetch, mounted, wasReset, producer, storeVars, trendVars, catalogVars>>

\* The owner calls reset.
Reset ==
    /\ mounted
    /\ SetState(ResetState(State))
    /\ Record("reset")
    /\ acted' = TRUE
    /\ wasReset' = TRUE
    /\ UNCHANGED <<autoFetch, mounted, requests, producer, storeVars, trendVars, catalogVars>>

\* The producer's promise of request i resolves: fetchData continues after its await.
ProducerResolves ==
    /\ \E i \in DOMAIN requests, result \in ResolveValues(producer) :
          /\ requests[i].status = "pending"
          /\ SetState(FetchResolved(State, result))
          /\ requests' = [requests EXCEPT ![i].status = "resolved", ![i].value = result,
                                          ![i].settledAt = SettledCount + 1]
    /\ Record("settle")
    /\ UNCHANGED <<autoFetch, mounted, acted, wasReset, producer, storeVars, trendVars, catalogVars>>

\* The producer's promise of request i rejects: the catch block and finally run.
ProducerRejects ==
    /\ \E i \in DOMAIN requests, err \in RejectValues(producer) :
          /\ requests[i].status = "pending"
          /\ SetState(FetchRejected(State, err))
          /\ requests' = [requests EXCEPT ![i].status = "rejected", ![i].thrown = err,
                                          ![i].settledAt = SettledCount + 1]
    /\ Record("settle")
    /\ UNCHANGED <<autoFetch, mounted, acted, wasReset, producer, storeVars, trendVars, catalogVars>>

(***************************************************************************)
(* Async fetch controller: properties.                                     *)
(***************************************************************************)
\* No refetch and no reset has been called, and the mount effect started a request.
OnlyAutoRequest == ~acted /\ autoFetch /\ Len(requests) = 1

\* C6: after construction with autoFetch = true, where the producer resolves to v
\* and neither refetch nor reset is called, the controller eventually reaches and
\* stays in {data: v, loading: false, error: null}.
AutoFetchEventuallySucceeded ==
    <>[](\/ acted
         \/ ~autoFetch
         \/ /\ Len(requests) = 1
            /\ requests[1].status # "pending"
            /\ requests[1].status = "resolved" =>
                  State = [data |-> requests[1].value, loading |-> FALSE, error |-> NoError])

\* C6 witness: the automatic request resolved to "movies1" and nothing else was called.
AutoFetchSucceeded ==
    /\ OnlyAutoRequest
    /\ requests[1].status = "resolved"
    /\ requests[1].value = "movies1"
    /\ State = [data |-> "movies1", loading |-> FALSE, error |-> NoError]

\* C7: after construction with autoFetch = true, where the producer rejects with an
\* Error of message m ("boom") and neither refetch nor reset is called, the controller
\* eventually reaches and stays in {data: null, loading: false, error: message m}.
AutoFetchEventuallyFailed ==
    <>[](\/ acted
         \/ ~autoFetch
         \/ /\ Len(requests) = 1
            /\ requests[1].status # "pending"
            /\ (requests[1].status = "rejected" /\ requests[1].thrown.isError) =>
                  State = [data |-> NULL, loading |-> FALSE,
                           error |-> ErrorObject(requests[1].thrown.message)])

\* C7 witness: the automatic request rejected with Error("boom") and nothing else was called.
AutoFetchFailedBoom ==
    /\ OnlyAutoRequest
    /\ requests[1].status = "rejected"
    /\ requests[1].thrown = [isError |-> TRUE, message |-> "boom"]
    /\ State = [data |-> NULL, loading |-> FALSE, error |-> ErrorObject("boom")]

\* C8: whatever the state before (idle, loading with a request in flight, succeeded,
\* failed), the state right after reset() is {data: null, loading: false, error: null};
\* so it is after a second reset() in a row.
ResetYieldsInitialState ==
    (events # <<>> /\ Head(events) = "reset") => State = InitialState

\* C8 witness: reset was called twice in a row while a request was in flight, after
\* one request had succeeded and one had failed.
ResetTwiceWhileLoading ==
    /\ events = <<"reset", "reset">>
    /\ \E i \in DOMAIN requests : requests[i].status = "pending"
    /\ \E i \in DOMAIN requests : requests[i].status = "resolved"
    /\ \E i \in DOMAIN requests : requests[i].status = "rejected"
    /\ State = InitialState

\* C11: the controller itself invokes the producer at most once, on creation and only
\* when autoFetch is true; with autoFetch false the producer is not invoked and the
\* state stays {data: null, loading: false, error: null} until refetch is called; no
\* later render, state change or new producer closure invokes it again.
AutoInvokedOnceOnCreation ==
    /\ Cardinality({ i \in DOMAIN requests : requests[i].auto }) <= 1
    /\ \A i \in DOMAIN requests : requests[i].auto => (autoFetch /\ mounted /\ i = 1)
    /\ (autoFetch /\ mounted) => (requests # <<>> /\ requests[1].auto)
    /\ (~autoFetch /\ \A i \in DOMAIN requests : requests[i].auto) =>
          (requests = <<>> /\ State = InitialState)

\* C11 witness: created with autoFetch, then refetched twice and reset, all requests
\* settled: the first request is the only one the controller made itself.
AutoInvokedOnceAfterChanges ==
    /\ autoFetch
    /\ wasReset
    /\ Len(requests) = 3
    /\ requests[1].auto /\ ~requests[2].auto /\ ~requests[3].auto
    /\ \A i \in DOMAIN requests : requests[i].status # "pending"

\* Request i settles in this step.
Completes(i) == requests[i].status = "pending" /\ requests'[i].status # "pending"

\* C13: whenever a request completes successfully, the state right after that
\* completion has data equal to that request's result and error absent, whatever
\* other requests have completed before.
SuccessYieldsSucceeded ==
    [][\A i \in DOMAIN requests :
          (Completes(i) /\ requests'[i].status = "resolved") =>
              (data' = requests'[i].value /\ error' = NoError)]_vars

\* C14: reset cancels nothing: it leaves every request in flight as it is, and a
\* request that completes after a reset still writes its result (or its error) and
\* clears loading, over the state reset left.
ResetDoesNotCancel ==
    [][/\ (wasReset' /\ events' # events /\ Head(events') = "reset") => requests' = requests
       /\ \A i \in DOMAIN requests :
             (wasReset /\ Completes(i)) =>
                 /\ ~loading'
                 /\ requests'[i].status = "resolved" => data' = requests'[i].value
                 /\ requests'[i].status = "rejected" => error'.present]_vars

\* C14 witness: the one request was started, reset was called while it was pending,
\* and its later completion put its result over the reset state.
CompletionOverwroteReset ==
    /\ Len(requests) = 1
    /\ events = <<"settle", "reset">>
    /\ requests[1].status = "resolved"
    /\ data = "movies1"
    /\ data = requests[1].value

\* C15: right after a request completes successfully, data is that request's result,
\* whether or not a request started later has already completed: the completion
\* that comes last decides data, not the request that was started last.
LastCompletionWins ==
    \A i \in DOMAIN requests :
        (/\ events # <<>>
         /\ Head(events) = "settle"
         /\ requests[i].status = "resolved"
         /\ requests[i].settledAt = SettledCount) => data = requests[i].value

\* C15 witness: two overlapping requests both succeeded, the second started completed
\* first, and data is the result of the first started.
EarlierCallOverwroteLater ==
    /\ Len(requests) = 2
    /\ ~wasReset
    /\ requests[1].status = "resolved" /\ requests[2].status = "resolved"
    /\ requests[1].value = "movies1" /\ requests[2].value = "movies2"
    /\ requests[2].settledAt = 1 /\ requests[1].settledAt = 2
    /\ Head(events) = "settle"
    /\ data = "movies1"

NonePending == \A i \in DOMAIN requests : requests[i].status # "pending"

\* C16: whenever no request is in flight loading is false, and once every started
\* request has settled and no new one is started, loading is false and stays false,
\* whether the requests succeeded or failed and whatever resets happened in between.
LoadingEventuallyCleared ==
    /\ [](NonePending => ~loading)
    /\ <>[](NonePending /\ ~loading)

\* C16 witness: three requests have settled, one with a failure and one with a
\* success, a reset happened, and loading is false.
AllSettledLoadingCleared ==
    /\ Len(requests) = 3
    /\ NonePending
    /\ wasReset
    /\ \E i \in DOMAIN requests : requests[i].status = "rejected"
    /\ \E i \in DOMAIN requests : requests[i].status = "resolved"
    /\ ~loading

\* C17: when a request fails, the stored error carries the thrown value's message
\* whenever the thrown value has one, and "An unknown error occurred" only when it
\* has none, for Error objects and for other thrown values alike.
ErrorKeepsMessage ==
    [][\A i \in DOMAIN requests :
          (Completes(i) /\ requests'[i].status = "rejected") =>
              /\ error'.present
              /\ error'.message = IF requests'[i].thrown.message # NULL
                                  THEN requests'[i].thrown.message
                                  ELSE "An unknown error occurred"]_vars

\* The home screen's error branch: moviesError || trendingError.
ErrorBranch(moviesError, trendingError) == moviesError.present \/ trendingError.present

\* C18: a controller whose producer is getTrendingMovies has no error in any state and
\* none of its requests fails; right after a request whose store query failed it is
\* {data: undefined, loading: false, error: null}; so the home screen takes its error
\* branch exactly when the catalog controller has an error.
TrendingControllerNeverFails ==
    producer = "getTrendingMovies" =>
        /\ error = NoError
        /\ \A i \in DOMAIN requests : requests[i].status # "rejected"
        /\ \A i \in DOMAIN requests :
              (/\ events # <<>>
               /\ Head(events) = "settle"
               /\ requests[i].settledAt = SettledCount
               /\ requests[i].value = UNDEFINED) =>
                  State = [data |-> UNDEFINED, loading |-> FALSE, error |-> NoError]
        /\ \A moviesError \in {NoError, ErrorObject("boom")} :
              ErrorBranch(moviesError, error) = moviesError.present

\* C18 witness: the store query of the one getTrendingMovies request failed, and the
\* controller shows no data, no loading and no error.
TrendingFailureShowsNoError ==
    /\ producer = "getTrendingMovies"
    /\ Len(requests) = 1
    /\ Head(events) = "settle"
    /\ requests[1].status = "resolved"
    /\ requests[1].value = UNDEFINED
    /\ State = [data |-> UNDEFINED, loading |-> FALSE, error |-> NoError]

\* C19: as long as reset has not been called, loading is true in every state in which
\* a request is in flight, also when requests overlap and one has already completed.
LoadingWhileInFlight ==
    (~wasReset /\ \E i \in DOMAIN requests : requests[i].status = "pending") => loading

RECURSIVE TotalCount(_)
\* The sum of count over the documents of a list.
TotalCount(docs) == IF docs = <<>> THEN 0 ELSE Head(docs).count + TotalCount(Tail(docs))

\* C20: from the empty store, in every state and for every term, the sum of count
\* over the documents of that term is at most the number of updateSearchCount calls
\* started with that term, whatever the interleaving and the store failures.
NeverOverCounts ==
    \A t \in Terms : TotalCount(ListBySearchTerm(documents, t)) <= started[t]

\* C20 witness: four calls for "Avatar" have finished; two created a document each and
\* two read the same count, so the counts add up to less than the calls.
DuplicatesAndLostUpdate ==
    /\ calls = <<>>
    /\ started["Avatar"] = 4
    /\ Len(ListBySearchTerm(documents, "Avatar")) = 2
    /\ TotalCount(ListBySearchTerm(documents, "Avatar")) = 3

Init ==
    /\ documents = <<>>
    /\ calls = <<>>
    /\ started = [t \in Terms |-> 0]
    /\ settled = NoneSettled
    /\ trending = NoTrending
    /\ autoFetch = TRUE
    /\ mounted = FALSE
    /\ data = NULL
    /\ loading = FALSE
    /\ error = NoError
    /\ requests = <<>>
    /\ events = <<>>
    /\ acted = FALSE
    /\ wasReset = FALSE
    /\ producer = "fetchFunction"
    /\ catalog = NoFetchMovies

Next ==
    \/ StartUpdateSearchCount
    \/ ListDocumentsStep
    \/ ListDocumentsFails
    \/ UpdateDocumentStep
    \/ UpdateDocumentFails
    \/ CreateDocumentStep
    \/ CreateDocumentFails

Spec == Init /\ [][Next]_vars

\* getTrendingMovies over every bounded store content.
TrendInit ==
    /\ documents \in TrendingStores
    /\ calls = <<>>
    /\ started = [t \in Terms |-> 0]
    /\ settled = NoneSettled
    /\ trending = NoTrending
    /\ autoFetch = TRUE
    /\ mounted = FALSE
    /\ data = NULL
    /\ loading = FALSE
    /\ error = NoError
    /\ requests = <<>>
    /\ events = <<>>
    /\ acted = FALSE
    /\ wasReset = FALSE
    /\ producer = "fetchFunction"
    /\ catalog = NoFetchMovies

TrendNext ==
    \/ GetTrendingMoviesResolves
    \/ GetTrendingMoviesRejects

TrendSpec == TrendInit /\ [][TrendNext]_vars

\* useFetch: one controller instance, with either value of autoFetch.
FetchInit ==
    /\ documents = <<>>
    /\ calls = <<>>
    /\ started = [t \in Terms |-> 0]
    /\ settled = NoneSettled
    /\ trending = NoTrending
    /\ autoFetch \in BOOLEAN
    /\ mounted = FALSE
    /\ data = InitialState.data
    /\ loading = InitialState.loading
    /\ error = InitialState.error
    /\ requests = <<>>
    /\ events = <<>>
    /\ acted = FALSE
    /\ wasReset = FALSE
    /\ producer \in Producers
    /\ catalog = NoFetchMovies

FetchNext ==
    \/ MountEffect
    \/ Rerender
    \/ Refetch
    \/ Reset
    \/ ProducerResolves
    \/ ProducerRejects

\* The mount effect runs once the component has rendered, and a producer's promise,
\* once pending, settles.
FetchFairness ==
    /\ WF_vars(MountEffect)
    /\ WF_vars(ProducerResolves \/ ProducerRejects)

FetchSpec == FetchInit /\ [][FetchNext]_vars /\ FetchFairness

\* fetchMovies: calls one after another, with every bounded query.
CatalogNext ==
    \/ FetchMoviesCall
    \/ FetchResponseOk
    \/ FetchResponseNotOk
    \/ FetchRejects
    \/ JsonResolves
    \/ JsonRejects

CatalogSpec == Init /\ [][CatalogNext]_vars

====
